---- MODULE Spec2Model ----
(***************************************************************************)
(* A model of dbrouter: one read-write connection and zero or more         *)
(* read-only connections behind one logical database.                      *)
(*                                                                         *)
(*   - the fan-out executor doConcurrent (concurrency file),               *)
(*   - the connection set DBImplementation (db.go) and WrapDBs             *)
(*     (resolver.go),                                                      *)
(*   - the prepared statement stmt (statement file).                       *)
(*                                                                         *)
(* Handles (sql.DB and sql.Stmt pointers) and error values are small       *)
(* integers; 0 is                                                          *)
(* Go's nil.  The uint64 counter readOnlyCount keeps a width, scaled down  *)
(* to CounterBits bits, so that its wrap-around is part of the model.      *)
(***************************************************************************)
EXTENDS Integers, Sequences, FiniteSets, TLC

\* ------------------------------------------------------------------ bounds
\* Largest n handed to doConcurrent when it is driven directly.
MaxN == 3

\* Width in bits of the counter readOnlyCount (a uint64), scaled down.
CounterBits == 2

\* Number of values of the counter: arithmetic on it is modulo this.
Modulus == 2 ^ CounterBits

\* Most replicas of a connection set on which reads and writes are routed.
MaxReplicas == 3

\* Client goroutines that call the set at the same time.
NumCallers == 2

\* Most replicas of a connection set whose lifecycle operations (Close, Ping,
\* Prepare, stmt.Close) are run through doConcurrent.
MaxFanReplicas == 2

\* Most Close calls a client makes on one connection set, and most Close
\* calls it makes on one statement (the code refuses neither a second Close).
MaxCloses == 1

MaxStmtCloses == 2

\* Most replicas of a connection set on which one client makes every kind of
\* call, lifecycle operations among reads and writes.
MaxApiReplicas == 1

\* Go's nil (a nil error, a nil handle).
Nil == 0

Max2(a, b) == IF a > b THEN a ELSE b

\* The *sql.DB handles a caller may pass to WrapDBs.
Handles == 1 .. (Max2(MaxReplicas, Max2(MaxFanReplicas, MaxApiReplicas)) + 1)

\* The *sql.Stmt that connection h returns from Prepare/PrepareContext.
PreparedOn(h) == h + Cardinality(Handles)

StmtHandles == {PreparedOn(h) : h \in Handles}

\* The error value a failing fn(i) returns: one distinct error per index.
ErrOf(i) == i + 1

\* The handle lists given to WrapDBs: n distinct handles, any of them first.
Rotation(n, k) == [i \in 1 .. n |-> ((i + k - 1) % n) + 1]

InputLists(max) == UNION {{Rotation(n, k) : k \in 0 .. (n - 1)} : n \in 1 .. max}

\* n distinct handles, the highest first.
Descending(n) == [i \in 1 .. n |-> n + 1 - i]

\* "No counter value": what a caller holds that has drawn none.
NoCount == Modulus

Callers == 1 .. NumCallers

\* The indices doConcurrent can be given.
Workers == 0 .. (Max2(MaxN, Max2(MaxFanReplicas, MaxApiReplicas) + 1) - 1)

VARIABLES
    \* --- the connection set (DBImplementation) ---
    dbs,              \* the handle list the set was built from (WrapDBs' argument)
    readWriteDB,      \* field readWriteDB
    readOnlyDBs,      \* field readOnlyDBs, a sequence
    totalConnections, \* field totalConnections
    built,            \* how the set came to be: "none" (not yet), "panicked", "wrapped",
                      \* "opening", "failed" (Open returned nil and an error), "opened"
    readOnlyCount,    \* field readOnlyCount
    poolConfigured,   \* the *sql.DB handles a pool setter has been applied to
    \* --- the client goroutines, one call each at a time ---
    pc,               \* caller c: "idle", "called" (in the method), "selected" (target chosen)
    op,               \* caller c: the method it is in, "none" when idle
    got,              \* caller c: the counter value roundRobin gave it, NoCount if none
    sel,              \* caller c: the handle its call resolved to, Nil if none yet
    \* --- histories of the reads ---
    roWindow,         \* the handles of the latest ReadOnly() calls in a row (at most R)
    prevRead,         \* the read selection before the latest: <<counter value, "set"/"stmt">>
    lastRead,         \* the latest read selection
    selSinceQuiet,    \* counter draws since no caller last held one (counted to NumCallers + 1)
    readsDone,        \* read selections since construction (counted to Modulus + 1)
    histories,        \* which of these histories a specification keeps: "sequence", "draws", "none"
    \* --- the statement the client holds (stmt), if any ---
    stmtHeld,         \* whether a Prepare has returned a statement
    rwstmt,           \* field rwstmt
    rostmts,          \* field rostmts, a sequence
    \* --- a Prepare in progress ---
    newRw,            \* rwstmt of the statement being built
    newRo,            \* the local slice roStmts
    \* --- the connections and prepared handles themselves ---
    closeCalls,       \* per *sql.DB: how many times Close was invoked on it
    stmtCloseCalls,   \* per *sql.Stmt: how many times Close was invoked on it
    closes,           \* how many times the client called Close on the set
    stmtCloses,       \* how many times the client called Close on the statement
    \* --- one run of doConcurrent(n, fn) ---
    fanPhase,   \* position of the calling goroutine: "idle", "spawn", "collect", "returned"
    fanKind,    \* which fn the caller passed: "fn" when driven directly
    fanN,       \* the argument n
    fanFails,   \* the indices i for which fn(i) returns an error (the environment's choice)
    loopI,      \* the loop variable i of the loop the caller is in
    wst,        \* worker i: "none", "spawned", "finished" (fn(i) returned), "sent"
    wres,       \* worker i: the value fn(i) returned, held until it is sent
    errors,     \* the buffered channel `errors`, a FIFO of capacity n
    err,        \* the collecting loop's local `err`
    fanRet,     \* the value doConcurrent returned
    invoked,    \* history: how many times fn(i) was called in this run
    recvLog,    \* history: the values the collecting loop received, in order
    seenRet     \* history: the values returned by the runs made with the present input

setVars == <<dbs, readWriteDB, readOnlyDBs, totalConnections, built>>

callVars == <<pc, op, got, sel>>

histVars == <<roWindow, prevRead, lastRead, selSinceQuiet, readsDone, histories>>

routeVars == <<readOnlyCount, poolConfigured, callVars, histVars>>

stmtVars == <<stmtHeld, rwstmt, rostmts>>

prepVars == <<newRw, newRo>>

connVars == <<closeCalls, stmtCloseCalls, closes, stmtCloses>>

fanVars == <<fanPhase, fanKind, fanN, fanFails, loopI, wst, wres, errors, err,
             fanRet, invoked, recvLog, seenRet>>

vars == <<setVars, routeVars, stmtVars, prepVars, connVars, fanVars>>

\* ------------------------------------------------------------ construction
\* WrapDBs keeping the whole list as the read-only connections: `dbs[0:]`.
WrapDBsKeepingAll(d) ==
    [readWriteDB |-> d[1],
     readOnlyDBs |-> d,
     totalConnections |-> Len(d)]

\* WrapDBs(dbs...) for a non-empty list: the fields of the set it returns.
WrapDBs(d) ==
    [readWriteDB |-> d[1],
     readOnlyDBs |-> Tail(d),
     totalConnections |-> Len(d)]

\* Nothing has been called yet: the zero values of the struct's other fields,
\* idle clients, untouched connections.
Fresh ==
    /\ readOnlyCount = 0
    /\ poolConfigured = {}
    /\ pc = [c \in Callers |-> "idle"]
    /\ op = [c \in Callers |-> "none"]
    /\ got = [c \in Callers |-> NoCount]
    /\ sel = [c \in Callers |-> Nil]
    /\ roWindow = <<>>
    /\ prevRead = <<NoCount, "none">>
    /\ lastRead = <<NoCount, "none">>
    /\ selSinceQuiet = 0
    /\ readsDone = 0
    /\ newRw = Nil
    /\ newRo = <<>>
    /\ closeCalls = [h \in Handles |-> 0]
    /\ stmtCloseCalls = [h \in StmtHandles |-> 0]
    /\ closes = 0
    /\ stmtCloses = 0

\* The set built from the list d by WrapDBs, nothing called on it yet.
Constructed(d) ==
    /\ dbs = d
    /\ readWriteDB = WrapDBs(d).readWriteDB
    /\ readOnlyDBs = WrapDBs(d).readOnlyDBs
    /\ totalConnections = WrapDBs(d).totalConnections
    /\ built = "wrapped"
    /\ Fresh

\* No set has been constructed yet.
Unbuilt ==
    /\ dbs = <<>>
    /\ readWriteDB = Nil
    /\ readOnlyDBs = <<>>
    /\ totalConnections = 0
    /\ built = "none"
    /\ Fresh

\* The client has a set to call: WrapDBs or Open has returned one.
SetBuilt == built \in {"wrapped", "opened"}

\* The client holds no statement.
NoStatement ==
    /\ stmtHeld = FALSE
    /\ rwstmt = Nil
    /\ rostmts = <<>>

\* The client holds the statement a Prepare returns when every prepare
\* succeeds: one handle per connection, in the connections' order.
StatementPrepared ==
    /\ stmtHeld = TRUE
    /\ rwstmt = PreparedOn(readWriteDB)
    /\ rostmts = [i \in 1 .. Len(readOnlyDBs) |-> PreparedOn(readOnlyDBs[i])]

\* No doConcurrent is running and none has run.
FanIdle ==
    /\ fanPhase = "idle"
    /\ fanKind = "none"
    /\ fanN = 0
    /\ fanFails = {}
    /\ loopI = 0
    /\ wst = [i \in Workers |-> "none"]
    /\ wres = [i \in Workers |-> Nil]
    /\ errors = <<>>
    /\ err = Nil
    /\ fanRet = Nil
    /\ invoked = [i \in Workers |-> 0]
    /\ recvLog = <<>>
    /\ seenRet = {}

\* The locals of a doConcurrent that has returned are gone once the client
\* makes its next call.
FanForget ==
    /\ fanPhase' = "idle"
    /\ fanKind' = "none"
    /\ fanN' = 0
    /\ fanFails' = {}
    /\ loopI' = 0
    /\ wst' = [i \in Workers |-> "none"]
    /\ wres' = [i \in Workers |-> Nil]
    /\ errors' = <<>>
    /\ err' = Nil
    /\ fanRet' = Nil
    /\ invoked' = [i \in Workers |-> 0]
    /\ recvLog' = <<>>
    /\ seenRet' = {}

\* ------------------------------------------------------------------ routing
SetReadOps == {"ReadOnly", "Query", "QueryContext", "QueryRow", "QueryRowContext"}

SetWriteOps == {"ReadWrite", "Exec", "ExecContext", "Begin", "BeginTx"}

StmtReadOps == {"Stmt.Query", "Stmt.QueryContext", "Stmt.QueryRow", "Stmt.QueryRowContext"}

StmtWriteOps == {"Stmt.Exec", "Stmt.ExecContext"}

StmtOps == StmtReadOps \cup StmtWriteOps

RoutedOps == SetReadOps \cup SetWriteOps \cup {"Driver"} \cup StmtOps

\* The callers that hold a counter value: between roundRobin and their return.
Holding == {c \in Callers : pc[c] = "selected" /\ got[c] # NoCount}

Min2(a, b) == IF a < b THEN a ELSE b

\* The last n elements of the sequence q.
LastN(q, n) == IF Len(q) <= n THEN q ELSE SubSeq(q, Len(q) - n + 1, Len(q))

\* The histories after a step of caller c (the step's primed pc, got and sel
\* are set by the conjuncts before this one).
Record(c) ==
    /\ histories' = histories
    /\ IF pc[c] # "selected" /\ pc'[c] = "selected" /\ got'[c] # NoCount
       THEN \* caller c has drawn a counter value
            /\ IF histories = "sequence"
               THEN /\ prevRead' = lastRead
                    /\ lastRead' = <<got'[c], IF op[c] \in StmtOps THEN "stmt" ELSE "set">>
                    /\ roWindow' = IF op[c] \in SetReadOps
                                   THEN LastN(Append(roWindow, sel'[c]), Len(readOnlyDBs))
                                   ELSE <<>>
                    /\ readsDone' = Min2(readsDone + 1, Modulus + 1)
               ELSE UNCHANGED <<prevRead, lastRead, roWindow, readsDone>>
            /\ IF histories = "draws"
               THEN selSinceQuiet' = IF Holding = {} THEN 1
                                     ELSE Min2(selSinceQuiet + 1, NumCallers + 1)
               ELSE UNCHANGED selSinceQuiet
       ELSE /\ UNCHANGED <<prevRead, lastRead, roWindow, readsDone>>
            /\ selSinceQuiet' = IF Holding # {} /\ Holding \ {c} = {} /\ pc'[c] = "idle"
                                THEN 0 ELSE selSinceQuiet

\* A client goroutine enters method o.  A statement method needs a statement;
\* the client is not inside a lifecycle call.
Call(c, o) ==
    /\ SetBuilt
    /\ pc[c] = "idle"
    /\ fanPhase \in {"idle", "returned"}
    /\ o \in StmtOps => stmtHeld
    /\ pc' = [pc EXCEPT ![c] = "called"]
    /\ op' = [op EXCEPT ![c] = o]
    /\ UNCHANGED <<got, sel, readOnlyCount, poolConfigured>>
    /\ Record(c)
    /\ FanForget
    /\ UNCHANGED <<setVars, stmtVars, prepVars, connVars>>

\* atomic.AddUint64(&x, delta): the new value.
AddUint64(x, delta) == (x + delta) % Modulus

\* roundRobin indexing with the counter's value before the increment
\* (fetch-then-add).
roundRobinFetchThenAdd(c, targets) ==
    /\ readOnlyCount' = AddUint64(readOnlyCount, 1)
    /\ got' = [got EXCEPT ![c] = readOnlyCount]
    /\ sel' = [sel EXCEPT ![c] = targets[(readOnlyCount % Len(targets)) + 1]]
    /\ pc' = [pc EXCEPT ![c] = "selected"]

\* roundRobin(n) as its two callers use it, indexing a list of n targets:
\* `targets[int(atomic.AddUint64(&readOnlyCount, 1) % uint64(n))]`.
roundRobin(c, targets) ==
    /\ readOnlyCount' = AddUint64(readOnlyCount, 1)
    /\ got' = [got EXCEPT ![c] = readOnlyCount']
    /\ sel' = [sel EXCEPT ![c] = targets[(readOnlyCount' % Len(targets)) + 1]]
    /\ pc' = [pc EXCEPT ![c] = "selected"]

\* A call resolves to handle h without drawing a counter value.
Resolve(c, h) ==
    /\ sel' = [sel EXCEPT ![c] = h]
    /\ pc' = [pc EXCEPT ![c] = "selected"]
    /\ UNCHANGED <<readOnlyCount, got>>

\* Query, QueryContext, QueryRow and QueryRowContext run on the read-write
\* connection; only a direct ReadOnly() selects a read-only one.
ReadOnlyQueryOnPrimary(c) ==
    /\ pc[c] = "called"
    /\ op[c] \in SetReadOps
    /\ IF totalConnections = 1 \/ op[c] # "ReadOnly"
       THEN Resolve(c, readWriteDB)
       ELSE roundRobin(c, readOnlyDBs)
    /\ UNCHANGED <<op, poolConfigured>>
    /\ Record(c)
    /\ UNCHANGED <<setVars, stmtVars, prepVars, connVars, fanVars>>

\* ReadOnly with no fallback to the read-write connection: without replicas
\* it returns nil.
ReadOnlyNoFallback(c) ==
    /\ pc[c] = "called"
    /\ op[c] \in SetReadOps
    /\ IF totalConnections = 1
       THEN Resolve(c, Nil)
       ELSE roundRobin(c, readOnlyDBs)
    /\ UNCHANGED <<op, poolConfigured>>
    /\ Record(c)
    /\ UNCHANGED <<setVars, stmtVars, prepVars, connVars, fanVars>>

\* DBImplementation.ReadOnly, called directly or by Query, QueryContext,
\* QueryRow, QueryRowContext.
ReadOnly(c) ==
    /\ pc[c] = "called"
    /\ op[c] \in SetReadOps
    /\ IF totalConnections = 1
       THEN Resolve(c, readWriteDB)
       ELSE roundRobin(c, readOnlyDBs)
    /\ UNCHANGED <<op, poolConfigured>>
    /\ Record(c)
    /\ UNCHANGED <<setVars, stmtVars, prepVars, connVars, fanVars>>

\* ReadWrite counting its call on the shared counter, as a counter of every
\* query would.
ReadWriteCounting(c) ==
    /\ pc[c] = "called"
    /\ op[c] \in SetWriteOps
    /\ readOnlyCount' = AddUint64(readOnlyCount, 1)
    /\ got' = [got EXCEPT ![c] = readOnlyCount']
    /\ sel' = [sel EXCEPT ![c] = readWriteDB]
    /\ pc' = [pc EXCEPT ![c] = "selected"]
    /\ UNCHANGED <<op, poolConfigured>>
    /\ Record(c)
    /\ UNCHANGED <<setVars, stmtVars, prepVars, connVars, fanVars>>

\* ReadWrite handing out the first read-only connection when there is one.
ReadWriteViaReplica(c) ==
    /\ pc[c] = "called"
    /\ op[c] \in SetWriteOps
    /\ Resolve(c, IF Len(readOnlyDBs) > 0 THEN readOnlyDBs[1] ELSE readWriteDB)
    /\ UNCHANGED <<op, poolConfigured>>
    /\ Record(c)
    /\ UNCHANGED <<setVars, stmtVars, prepVars, connVars, fanVars>>

\* DBImplementation.ReadWrite, called directly or by Exec, ExecContext,
\* Begin, BeginTx.
ReadWrite(c) ==
    /\ pc[c] = "called"
    /\ op[c] \in SetWriteOps
    /\ Resolve(c, readWriteDB)
    /\ UNCHANGED <<op, poolConfigured>>
    /\ Record(c)
    /\ UNCHANGED <<setVars, stmtVars, prepVars, connVars, fanVars>>

\* DBImplementation.Driver: the driver of the read-write connection.
Driver(c) ==
    /\ pc[c] = "called"
    /\ op[c] = "Driver"
    /\ Resolve(c, readWriteDB)
    /\ UNCHANGED <<op, poolConfigured>>
    /\ Record(c)
    /\ UNCHANGED <<setVars, stmtVars, prepVars, connVars, fanVars>>

\* ROStmt drawing from a counter of the statement's own, which starts at 0,
\* and leaving the set's counter alone.
ROStmtUnshared(c) ==
    /\ pc[c] = "called"
    /\ op[c] \in StmtReadOps
    /\ IF Len(rostmts) = 0
       THEN Resolve(c, rwstmt)
       ELSE /\ got' = [got EXCEPT ![c] = AddUint64(0, 1)]
            /\ sel' = [sel EXCEPT ![c] = rostmts[(got'[c] % Len(rostmts)) + 1]]
            /\ pc' = [pc EXCEPT ![c] = "selected"]
            /\ UNCHANGED readOnlyCount
    /\ UNCHANGED <<op, poolConfigured>>
    /\ Record(c)
    /\ UNCHANGED <<setVars, stmtVars, prepVars, connVars, fanVars>>

\* stmt.ROStmt, called by the statement's Query, QueryContext, QueryRow,
\* QueryRowContext.
ROStmt(c) ==
    /\ pc[c] = "called"
    /\ op[c] \in StmtReadOps
    /\ IF Len(rostmts) = 0
       THEN Resolve(c, rwstmt)
       ELSE roundRobin(c, rostmts)
    /\ UNCHANGED <<op, poolConfigured>>
    /\ Record(c)
    /\ UNCHANGED <<setVars, stmtVars, prepVars, connVars, fanVars>>

\* The statement's Exec and ExecContext selecting their handle as its reads do.
RWStmtViaRoundRobin(c) ==
    /\ pc[c] = "called"
    /\ op[c] \in StmtWriteOps
    /\ IF Len(rostmts) = 0
       THEN Resolve(c, rwstmt)
       ELSE roundRobin(c, rostmts)
    /\ UNCHANGED <<op, poolConfigured>>
    /\ Record(c)
    /\ UNCHANGED <<setVars, stmtVars, prepVars, connVars, fanVars>>

\* stmt.RWStmt, called by the statement's Exec, ExecContext.
RWStmt(c) ==
    /\ pc[c] = "called"
    /\ op[c] \in StmtWriteOps
    /\ Resolve(c, rwstmt)
    /\ UNCHANGED <<op, poolConfigured>>
    /\ Record(c)
    /\ UNCHANGED <<setVars, stmtVars, prepVars, connVars, fanVars>>

\* The call of caller c is made on the handle it resolved to, and returns.
Return(c) ==
    /\ pc[c] = "selected"
    /\ pc' = [pc EXCEPT ![c] = "idle"]
    /\ op' = [op EXCEPT ![c] = "none"]
    /\ got' = [got EXCEPT ![c] = NoCount]
    /\ sel' = [sel EXCEPT ![c] = Nil]
    /\ UNCHANGED <<readOnlyCount, poolConfigured>>
    /\ Record(c)
    /\ UNCHANGED <<setVars, stmtVars, prepVars, connVars, fanVars>>

\* The body the four pool setters share: the setting is applied to the
\* read-write connection, then to each read-only connection in turn.
ConfigureAll(c) ==
    /\ SetBuilt
    /\ pc[c] = "idle"
    /\ fanPhase \in {"idle", "returned"}
    /\ poolConfigured' = poolConfigured \cup {readWriteDB}
                            \cup {readOnlyDBs[i] : i \in 1 .. Len(readOnlyDBs)}
    /\ UNCHANGED <<readOnlyCount, callVars, histVars>>
    /\ FanForget
    /\ UNCHANGED <<setVars, stmtVars, prepVars, connVars>>

SetMaxIdleConns(c) == ConfigureAll(c)

SetMaxOpenConns(c) == ConfigureAll(c)

SetConnMaxLifetime(c) == ConfigureAll(c)

SetConnMaxIdleTime(c) == ConfigureAll(c)

\* -------------------------------------------------------------- fan-out
\* --------------------------------------------- the functions handed to fan out
\* The connection index i addresses: the primary for i = 0, else
\* readOnlyDBs[i-1] (Go counts from 0, a TLA+ sequence from 1).
ConnAt(i) == IF i = 0 THEN readWriteDB ELSE readOnlyDBs[i]

\* The prepared handle index i addresses: rwstmt for i = 0, else rostmts[i-1].
StmtAt(i) == IF i = 0 THEN rwstmt ELSE rostmts[i]

\* The value fn(i) returns.
FnResult(i) == IF i \in fanFails THEN ErrOf(i) ELSE Nil

\* Close's fn closing the read-write connection whatever the index.
CloseFnPrimaryOnly(i) ==
    /\ closeCalls' = [closeCalls EXCEPT ![readWriteDB] = @ + 1]
    /\ UNCHANGED <<stmtCloseCalls, newRw, newRo, readWriteDB, readOnlyDBs>>

\* Close's fn: Close on the connection index i addresses.
CloseFn(i) ==
    /\ closeCalls' = [closeCalls EXCEPT ![ConnAt(i)] = @ + 1]
    /\ UNCHANGED <<stmtCloseCalls, newRw, newRo, readWriteDB, readOnlyDBs>>

\* Ping's and PingContext's fn: Ping on the connection index i addresses.
PingFn(i) ==
    /\ ConnAt(i) \in Handles
    /\ UNCHANGED <<closeCalls, stmtCloseCalls, newRw, newRo, readWriteDB, readOnlyDBs>>

\* Prepare's fn preparing on the read-write connection whatever the index.
PrepareFnOnPrimary(i) ==
    /\ IF i = 0
       THEN /\ newRw' = (IF FnResult(i) = Nil THEN PreparedOn(readWriteDB) ELSE Nil)
            /\ UNCHANGED newRo
       ELSE /\ newRo' = [newRo EXCEPT ![i] =
                            IF FnResult(i) = Nil THEN PreparedOn(readWriteDB) ELSE Nil]
            /\ UNCHANGED newRw
    /\ UNCHANGED <<closeCalls, stmtCloseCalls, readWriteDB, readOnlyDBs>>

\* Prepare's and PrepareContext's fn: the statement (nil when the prepare
\* fails) is written to stmt.rwstmt for i = 0, else to roStmts[i-1].
PrepareFn(i) ==
    /\ IF i = 0
       THEN /\ newRw' = (IF FnResult(i) = Nil THEN PreparedOn(readWriteDB) ELSE Nil)
            /\ UNCHANGED newRo
       ELSE /\ newRo' = [newRo EXCEPT ![i] =
                            IF FnResult(i) = Nil THEN PreparedOn(readOnlyDBs[i]) ELSE Nil]
            /\ UNCHANGED newRw
    /\ UNCHANGED <<closeCalls, stmtCloseCalls, readWriteDB, readOnlyDBs>>

\* The *sql.DB that sql.Open returns for segment i of the data source name.
OpenedFrom(i) == i + 1

\* openConnections' fn indexing the read-only slice with i instead of i-1:
\* `dbImplementation.readOnlyDBs[i], err = sql.Open(driverName, conns[i])`,
\* the slot of goroutine i+1.
OpenFnNextSlot(i) ==
    /\ IF i = 0
       THEN /\ readWriteDB' = (IF FnResult(i) = Nil THEN OpenedFrom(i) ELSE Nil)
            /\ UNCHANGED readOnlyDBs
       ELSE /\ readOnlyDBs' = [readOnlyDBs EXCEPT ![i + 1] =
                                  IF FnResult(i) = Nil THEN OpenedFrom(i) ELSE Nil]
            /\ UNCHANGED readWriteDB
    /\ UNCHANGED <<closeCalls, stmtCloseCalls, newRw, newRo>>

\* openConnections' fn opening every connection from the first segment:
\* `sql.Open(driverName, conns[0])`.
OpenFnFirstSegment(i) ==
    /\ IF i = 0
       THEN /\ readWriteDB' = (IF FnResult(i) = Nil THEN OpenedFrom(0) ELSE Nil)
            /\ UNCHANGED readOnlyDBs
       ELSE /\ readOnlyDBs' = [readOnlyDBs EXCEPT ![i] =
                                  IF FnResult(i) = Nil THEN OpenedFrom(0) ELSE Nil]
            /\ UNCHANGED readWriteDB
    /\ UNCHANGED <<closeCalls, stmtCloseCalls, newRw, newRo>>

\* openConnections' fn: sql.Open's results are assigned to readWriteDB for
\* i = 0, else to readOnlyDBs[i-1]; the handle is nil when the open fails.
OpenFn(i) ==
    /\ IF i = 0
       THEN /\ readWriteDB' = (IF FnResult(i) = Nil THEN OpenedFrom(i) ELSE Nil)
            /\ UNCHANGED readOnlyDBs
       ELSE /\ readOnlyDBs' = [readOnlyDBs EXCEPT ![i] =
                                  IF FnResult(i) = Nil THEN OpenedFrom(i) ELSE Nil]
            /\ UNCHANGED readWriteDB
    /\ UNCHANGED <<closeCalls, stmtCloseCalls, newRw, newRo>>

\* stmt.Close's fn: Close on the prepared handle index i addresses.
StmtCloseFn(i) ==
    /\ stmtCloseCalls' = [stmtCloseCalls EXCEPT ![StmtAt(i)] = @ + 1]
    /\ UNCHANGED <<closeCalls, newRw, newRo, readWriteDB, readOnlyDBs>>

\* fn(i), by the caller that passed it.
Fn(i) ==
    CASE fanKind = "Close" -> CloseFn(i)
      [] fanKind = "Ping" -> PingFn(i)
      [] fanKind = "Prepare" -> PrepareFn(i)
      [] fanKind = "StmtClose" -> StmtCloseFn(i)
      [] fanKind = "Open" -> OpenFn(i)
      [] OTHER -> UNCHANGED <<closeCalls, stmtCloseCalls, newRw, newRo, readWriteDB, readOnlyDBs>>

\* ------------------------------------------------------- doConcurrent
\* The call: `errors := make(chan error, n)`, then the first loop begins.
\* The caller passes fn; which indices fail is fn's behaviour, an input.
FanBegin(kind, n, fails) ==
    /\ fanPhase \in {"idle", "returned"}
    /\ fanPhase' = "spawn"
    /\ fanKind' = kind
    /\ fanN' = n
    /\ fanFails' = fails
    /\ loopI' = 0
    /\ wst' = [i \in Workers |-> "none"]
    /\ wres' = [i \in Workers |-> Nil]
    /\ errors' = <<>>
    /\ err' = Nil
    /\ fanRet' = Nil
    /\ invoked' = [i \in Workers |-> 0]
    /\ recvLog' = <<>>
    /\ seenRet' = IF kind = fanKind /\ n = fanN /\ fails = fanFails THEN seenRet ELSE {}

\* `for i := 0; i < n; i++ { go func(i int) {...}(i) }`: one iteration, or
\* the loop's exit to `var err error` and the second loop.
FanSpawn ==
    /\ fanPhase = "spawn"
    /\ IF loopI < fanN
       THEN /\ wst' = [wst EXCEPT ![loopI] = "spawned"]
            /\ loopI' = loopI + 1
            /\ UNCHANGED <<fanPhase, err>>
       ELSE /\ fanPhase' = "collect"
            /\ loopI' = 0
            /\ err' = Nil
            /\ UNCHANGED wst
    /\ UNCHANGED <<fanKind, fanN, fanFails, wres, errors, fanRet, invoked, recvLog, seenRet>>
    /\ UNCHANGED <<setVars, routeVars, stmtVars, prepVars, connVars>>

\* Goroutine i evaluates fn(i): the operand of `errors <- fn(i)`.
WorkerRun(i) ==
    /\ wst[i] = "spawned"
    /\ wst' = [wst EXCEPT ![i] = "finished"]
    /\ wres' = [wres EXCEPT ![i] = FnResult(i)]
    /\ invoked' = [invoked EXCEPT ![i] = @ + 1]
    /\ Fn(i)
    /\ UNCHANGED <<fanPhase, fanKind, fanN, fanFails, loopI, errors, err, fanRet,
                   recvLog, seenRet>>
    /\ UNCHANGED <<dbs, totalConnections, built, routeVars, stmtVars, closes, stmtCloses>>

\* The send on an unbuffered channel, `make(chan error)`: it completes only
\* when the collecting loop is at its receive.
WorkerSendUnbuffered(i) ==
    /\ wst[i] = "finished"
    /\ fanPhase = "collect" /\ loopI < fanN /\ errors = <<>>
    /\ errors' = Append(errors, wres[i])
    /\ wst' = [wst EXCEPT ![i] = "sent"]
    /\ UNCHANGED <<fanPhase, fanKind, fanN, fanFails, loopI, wres, err, fanRet,
                   invoked, recvLog, seenRet>>
    /\ UNCHANGED <<setVars, routeVars, stmtVars, prepVars, connVars>>

\* Goroutine i sends: `errors <- ...`.  The send blocks while the buffer is full.
WorkerSend(i) ==
    /\ wst[i] = "finished"
    /\ Len(errors) < fanN
    /\ errors' = Append(errors, wres[i])
    /\ wst' = [wst EXCEPT ![i] = "sent"]
    /\ UNCHANGED <<fanPhase, fanKind, fanN, fanFails, loopI, wres, err, fanRet,
                   invoked, recvLog, seenRet>>
    /\ UNCHANGED <<setVars, routeVars, stmtVars, prepVars, connVars>>

\* The collecting loop assigning every received value, nil too: `err = <-errors`.
FanReceiveOverwrite ==
    /\ fanPhase = "collect"
    /\ loopI < fanN
    /\ errors # <<>>
    /\ errors' = Tail(errors)
    /\ err' = Head(errors)
    /\ recvLog' = Append(recvLog, Head(errors))
    /\ loopI' = loopI + 1
    /\ UNCHANGED <<fanPhase, fanKind, fanN, fanFails, wst, wres, fanRet, invoked, seenRet>>
    /\ UNCHANGED <<setVars, routeVars, stmtVars, prepVars, connVars>>

\* The collecting loop keeping the first error it receives.
FanReceiveFirst ==
    /\ fanPhase = "collect"
    /\ loopI < fanN
    /\ errors # <<>>
    /\ errors' = Tail(errors)
    /\ err' = IF err = Nil THEN Head(errors) ELSE err
    /\ recvLog' = Append(recvLog, Head(errors))
    /\ loopI' = loopI + 1
    /\ UNCHANGED <<fanPhase, fanKind, fanN, fanFails, wst, wres, fanRet, invoked, seenRet>>
    /\ UNCHANGED <<setVars, routeVars, stmtVars, prepVars, connVars>>

\* `for i := 0; i < n; i++ { if e := <-errors; e != nil { err = e } }`: one
\* iteration (the receive blocks while the channel is empty).
FanReceive ==
    /\ fanPhase = "collect"
    /\ loopI < fanN
    /\ errors # <<>>
    /\ errors' = Tail(errors)
    /\ err' = IF Head(errors) # Nil THEN Head(errors) ELSE err
    /\ recvLog' = Append(recvLog, Head(errors))
    /\ loopI' = loopI + 1
    /\ UNCHANGED <<fanPhase, fanKind, fanN, fanFails, wst, wres, fanRet, invoked, seenRet>>
    /\ UNCHANGED <<setVars, routeVars, stmtVars, prepVars, connVars>>

\* Prepare returning the statement whatever doConcurrent returned.
PrepareReturnAlways(e) ==
    /\ stmtHeld' = TRUE
    /\ rwstmt' = newRw
    /\ rostmts' = newRo

\* What Prepare and PrepareContext do with doConcurrent's result e:
\* `if err != nil { return nil, err }; stmt.rostmts = roStmts; return stmt, nil`.
PrepareReturn(e) ==
    IF e # Nil
    THEN UNCHANGED stmtVars
    ELSE /\ stmtHeld' = TRUE
         /\ rwstmt' = newRw
         /\ rostmts' = newRo

\* Open closing, when it fails, the connections it did open.
OpenReturnWithRollback(e) ==
    /\ built' = IF e # Nil THEN "failed" ELSE "opened"
    /\ closeCalls' = [h \in Handles |->
                         IF e # Nil /\ \E i \in 0 .. (totalConnections - 1) :
                                          ConnAt(i) = h
                         THEN closeCalls[h] + 1 ELSE closeCalls[h]]
    /\ UNCHANGED <<dbs, readWriteDB, readOnlyDBs, totalConnections>>

\* What Open does with openConnections' result e:
\* `if err != nil { return nil, err }; return dbImplementation, nil`.
OpenReturn(e) ==
    /\ built' = IF e # Nil THEN "failed" ELSE "opened"
    /\ UNCHANGED <<dbs, readWriteDB, readOnlyDBs, totalConnections, closeCalls>>

\* doConcurrent returning as soon as it has received an error (short-circuit).
FanReturnOnError ==
    /\ fanPhase = "collect"
    /\ loopI >= fanN \/ err # Nil
    /\ fanPhase' = "returned"
    /\ fanRet' = err
    /\ seenRet' = IF fanKind = "fn" THEN seenRet \cup {err} ELSE seenRet
    /\ IF fanKind = "Prepare" THEN PrepareReturn(err) ELSE UNCHANGED stmtVars
    /\ IF fanKind = "Open" THEN OpenReturn(err) ELSE UNCHANGED <<setVars, closeCalls>>
    /\ UNCHANGED <<fanKind, fanN, fanFails, loopI, wst, wres, errors, err, invoked, recvLog>>
    /\ UNCHANGED <<routeVars, prepVars, stmtCloseCalls, closes, stmtCloses>>

\* doConcurrent receiving one result too few: `for i := 0; i < n-1; i++`.
FanReturnEarly ==
    /\ fanPhase = "collect"
    /\ loopI >= fanN - 1
    /\ fanPhase' = "returned"
    /\ fanRet' = err
    /\ seenRet' = IF fanKind = "fn" THEN seenRet \cup {err} ELSE seenRet
    /\ IF fanKind = "Prepare" THEN PrepareReturn(err) ELSE UNCHANGED stmtVars
    /\ IF fanKind = "Open" THEN OpenReturn(err) ELSE UNCHANGED <<setVars, closeCalls>>
    /\ UNCHANGED <<fanKind, fanN, fanFails, loopI, wst, wres, errors, err, invoked, recvLog>>
    /\ UNCHANGED <<routeVars, prepVars, stmtCloseCalls, closes, stmtCloses>>

\* The second loop's exit and `return err`, and with it the caller's own
\* return (Close, Ping, PingContext and stmt.Close return the value as it is).
FanReturn ==
    /\ fanPhase = "collect"
    /\ loopI >= fanN
    /\ fanPhase' = "returned"
    /\ fanRet' = err
    /\ seenRet' = IF fanKind = "fn" THEN seenRet \cup {err} ELSE seenRet
    /\ IF fanKind = "Prepare" THEN PrepareReturn(err) ELSE UNCHANGED stmtVars
    /\ IF fanKind = "Open" THEN OpenReturn(err) ELSE UNCHANGED <<setVars, closeCalls>>
    /\ UNCHANGED <<fanKind, fanN, fanFails, loopI, wst, wres, errors, err, invoked, recvLog>>
    /\ UNCHANGED <<routeVars, prepVars, stmtCloseCalls, closes, stmtCloses>>

FanStep ==
    \/ FanSpawn
    \/ \E i \in Workers : WorkerRun(i)
    \/ \E i \in Workers : WorkerSend(i)
    \/ FanReceive
    \/ FanReturn

\* ------------------------------------------ doConcurrent driven directly
\* A caller hands doConcurrent any n >= 0 and any fn.
CallDoConcurrent ==
    /\ \E n \in 0 .. MaxN : \E fails \in SUBSET (0 .. (n - 1)) :
           FanBegin("fn", n, fails)
    /\ UNCHANGED <<setVars, routeVars, stmtVars, prepVars, connVars>>

FanInit == FanIdle /\ Constructed(<<1>>) /\ NoStatement /\ histories = "none"

FanNext == CallDoConcurrent \/ FanStep

FanSpec == FanInit /\ [][FanNext]_vars

\* doConcurrent under the Go scheduler: a goroutine that can take a step
\* eventually takes one, and every fn(i) terminates.
FanFairSpec == FanInit /\ [][FanNext]_vars /\ WF_vars(FanStep)

\* ------------------------------------------------------- construction calls
\* The handle lists a caller gives to WrapDBs: the empty one among them.
WrapInputs == {<<>>} \cup InputLists(MaxFanReplicas + 1)

\* WrapDBs(dbs...): `if len(dbs) == 0 { panic(...) }`, else the set.
CallWrapDBs ==
    /\ built = "none"
    /\ fanPhase = "idle"
    /\ \E d \in WrapInputs :
         /\ dbs' = d
         /\ IF Len(d) = 0
            THEN /\ built' = "panicked"
                 /\ UNCHANGED <<readWriteDB, readOnlyDBs, totalConnections>>
            ELSE /\ built' = "wrapped"
                 /\ readWriteDB' = WrapDBs(d).readWriteDB
                 /\ readOnlyDBs' = WrapDBs(d).readOnlyDBs
                 /\ totalConnections' = WrapDBs(d).totalConnections
    /\ UNCHANGED <<routeVars, stmtVars, prepVars, connVars, fanVars>>

\* Open(driverName, dataSourceName): strings.Split gives n >= 1 segments; the
\* struct is allocated with n-1 nil read-only handles and totalConnections n,
\* then openConnections fans out over the segments.
Open ==
    /\ built = "none"
    /\ \E n \in 1 .. (MaxFanReplicas + 1) : \E fails \in SUBSET (0 .. (n - 1)) :
         /\ FanBegin("Open", n, fails)
         /\ totalConnections' = n
         /\ readOnlyDBs' = [i \in 1 .. (n - 1) |-> Nil]
    /\ built' = "opening"
    /\ UNCHANGED <<dbs, readWriteDB>>
    /\ UNCHANGED <<routeVars, stmtVars, prepVars, connVars>>

\* ------------------------------------------- lifecycle operations of the set
\* A lifecycle call is made on a set, by a client that is in no other call.
ClientFree == SetBuilt /\ \A c \in Callers : pc[c] = "idle"

\* The failing subsets of a fan-out over the set's connections.
FailSets == SUBSET (0 .. (totalConnections - 1))

\* Close as it would be if it also reset the connection count once the
\* connections are closed.
CloseZeroingCount ==
    /\ ClientFree
    /\ closes < MaxCloses
    /\ \E fails \in FailSets : FanBegin("Close", totalConnections, fails)
    /\ closes' = closes + 1
    /\ totalConnections' = 0
    /\ UNCHANGED <<dbs, readWriteDB, readOnlyDBs, built>>
    /\ UNCHANGED <<routeVars, stmtVars, prepVars, closeCalls, stmtCloseCalls, stmtCloses>>

\* DBImplementation.Close.
Close ==
    /\ ClientFree
    /\ closes < MaxCloses
    /\ \E fails \in FailSets : FanBegin("Close", totalConnections, fails)
    /\ closes' = closes + 1
    /\ UNCHANGED <<setVars, routeVars, stmtVars, prepVars, closeCalls, stmtCloseCalls, stmtCloses>>

\* DBImplementation.Ping.
Ping ==
    /\ ClientFree
    /\ \E fails \in FailSets : FanBegin("Ping", totalConnections, fails)
    /\ UNCHANGED <<setVars, routeVars, stmtVars, prepVars, connVars>>

\* DBImplementation.PingContext: Ping with a context handed on to the driver.
PingContext ==
    /\ ClientFree
    /\ \E fails \in FailSets : FanBegin("Ping", totalConnections, fails)
    /\ UNCHANGED <<setVars, routeVars, stmtVars, prepVars, connVars>>

\* What Prepare and PrepareContext do before the fan-out:
\* `stmt := &stmt{db: ...}; roStmts := make([]*sql.Stmt, len(readOnlyDBs))`.
\* The client holds one statement at a time.
PrepareBegin ==
    /\ ClientFree
    /\ ~stmtHeld
    /\ \E fails \in FailSets : FanBegin("Prepare", totalConnections, fails)
    /\ newRw' = Nil
    /\ newRo' = [i \in 1 .. Len(readOnlyDBs) |-> Nil]
    /\ UNCHANGED <<setVars, routeVars, stmtVars, connVars>>

\* DBImplementation.Prepare.
Prepare == PrepareBegin

\* DBImplementation.PrepareContext: Prepare with a context handed on to the driver.
PrepareContext == PrepareBegin

\* stmt.Close.
StmtClose ==
    /\ ClientFree
    /\ stmtHeld
    /\ stmtCloses < MaxStmtCloses
    /\ \E fails \in FailSets : FanBegin("StmtClose", totalConnections, fails)
    /\ stmtCloses' = stmtCloses + 1
    /\ UNCHANGED <<setVars, routeVars, stmtVars, prepVars, closeCalls, stmtCloseCalls, closes>>

LifecycleInit ==
    /\ FanIdle
    /\ \E n \in 1 .. (MaxFanReplicas + 1) : Constructed(Descending(n))
    /\ NoStatement
    /\ histories = "none"

LifecycleNext ==
    \/ Close
    \/ Ping
    \/ PingContext
    \/ Prepare
    \/ PrepareContext
    \/ StmtClose
    \/ FanStep

LifecycleSpec == LifecycleInit /\ [][LifecycleNext]_vars

\* ------------------------------------------------- one client, routed calls
\* One client goroutine calls the routed methods and the pool setters one
\* after another on a set of up to MaxReplicas replicas, a statement prepared.
Init ==
    /\ FanIdle
    /\ \E d \in InputLists(MaxReplicas + 1) : Constructed(d)
    /\ StatementPrepared
    /\ histories = "sequence"

Next ==
    \/ \E o \in RoutedOps : Call(1, o)
    \/ ReadOnly(1)
    \/ ReadWrite(1)
    \/ Driver(1)
    \/ ROStmt(1)
    \/ RWStmt(1)
    \/ Return(1)
    \/ SetMaxIdleConns(1)
    \/ SetMaxOpenConns(1)
    \/ SetConnMaxLifetime(1)
    \/ SetConnMaxIdleTime(1)

Spec == Init /\ [][Next]_vars

\* ------------------------------------------------------ concurrent readers
\* The reads the concurrent callers make: one on the set, one on the statement.
ConcurrentReads == {"ReadOnly", "Stmt.Query"}

ReadersInit ==
    /\ FanIdle
    /\ \E n \in 1 .. (MaxReplicas + 1) : Constructed(Descending(n))
    /\ StatementPrepared
    /\ histories = "draws"

ReadersNext ==
    \E c \in Callers :
        \/ \E o \in ConcurrentReads : Call(c, o)
        \/ ReadOnly(c)
        \/ ROStmt(c)
        \/ Return(c)

ReadersSpec == ReadersInit /\ [][ReadersNext]_vars

\* ------------------------------------------- one client, every kind of call
ApiInit ==
    /\ FanIdle
    /\ \E n \in 1 .. (MaxApiReplicas + 1) : Constructed(Descending(n))
    /\ NoStatement
    /\ histories = "none"

ApiNext ==
    \/ LifecycleNext
    \/ Next

ApiSpec == ApiInit /\ [][ApiNext]_vars

\* ------------------------------------------- construction, then Prepare
\* A client builds the set with WrapDBs or Open and, when it got one, prepares
\* a statement on it.
BuildInit ==
    /\ FanIdle
    /\ Unbuilt
    /\ NoStatement
    /\ histories = "none"

BuildNext ==
    \/ CallWrapDBs
    \/ Open
    \/ Prepare
    \/ PrepareContext
    \/ FanStep

BuildSpec == BuildInit /\ [][BuildNext]_vars


-----------------------------------------------------------------------------
\* Properties.

\* The read-only connections as a set, and the handles of a window.
Replicas == {readOnlyDBs[i] : i \in 1 .. Len(readOnlyDBs)}

WindowHandles == {roWindow[i] : i \in 1 .. Len(roWindow)}

\* The counter has not wrapped from its largest value to 0 within the last k
\* values drawn, or the wrap is invisible because n divides the modulus.
NoWrapWithin(k, n) == readOnlyCount >= k - 1 \/ Modulus % n = 0

\* C1: with R >= 1 read-only connections, any R consecutive ReadOnly() calls,
\* wherever they start in the call history, return every read-only connection
\* exactly once, and never the read-write connection.
C1_AnyWindowIsFair ==
    Len(readOnlyDBs) >= 1 =>
        /\ readWriteDB \notin WindowHandles
        /\ Len(roWindow) = Len(readOnlyDBs) => WindowHandles = Replicas

\* The extent of C1's failure: ReadOnly() never returns the read-write
\* connection, and a window is fair unless the counter wraps to 0 among the R
\* values it draws while R does not divide the counter's modulus.
RoundRobinWindowWithoutWrap ==
    Len(readOnlyDBs) >= 1 =>
        /\ readWriteDB \notin WindowHandles
        /\ WindowHandles \subseteq Replicas
        /\ (Len(roWindow) = Len(readOnlyDBs) /\ NoWrapWithin(Len(readOnlyDBs), Len(readOnlyDBs)))
               => WindowHandles = Replicas

\* C2: the counter is one sequence shared by the set and its statements: the
\* read that follows a read which drew c, be it a ReadOnly() of the set or a
\* read of a statement prepared on it, draws c+1 (in the counter's unsigned
\* arithmetic).
C2_SharedCounter ==
    (prevRead[1] # NoCount /\ lastRead[1] # NoCount) =>
        lastRead[1] = (prevRead[1] + 1) % Modulus

\* A set-level read drew c and the statement read after it drew c+1.
C2_Witness ==
    /\ prevRead[1] # NoCount
    /\ prevRead[2] = "set"
    /\ lastRead[2] = "stmt"
    /\ lastRead[1] = prevRead[1] + 1

\* The connection a handle stands for: a prepared handle's connection, or the
\* connection itself.
ConnOf(h) == IF h \in StmtHandles THEN h - Cardinality(Handles) ELSE h

\* The callers holding a drawn value when every value drawn since the counter
\* was last unobserved is still held: K concurrent read selections.
ConcurrentlyHeld == selSinceQuiet = Cardinality(Holding) /\ Holding # {}

\* The K values drawn are the K consecutive values ending at the counter.
HeldValuesConsecutive ==
    {got[c] : c \in Holding} =
        {(readOnlyCount + Modulus - j) % Modulus : j \in 0 .. (Cardinality(Holding) - 1)}

HeldReplicasDistinct ==
    Cardinality({ConnOf(sel[c]) : c \in Holding}) = Cardinality(Holding)

\* C3: K concurrent read selections draw K pairwise distinct counter values,
\* the K consecutive values that follow the counter's prior value, and when
\* K <= R the K callers get K distinct read-only connections.
C3_ConcurrentReadsDistinct ==
    ConcurrentlyHeld =>
        /\ HeldValuesConsecutive
        /\ Cardinality({got[c] : c \in Holding}) = Cardinality(Holding)
        /\ Cardinality(Holding) <= Len(readOnlyDBs) => HeldReplicasDistinct

\* The extent of C3's failure: no value is lost or drawn twice, and the
\* connections are distinct unless the counter wraps to 0 among the K values
\* while R does not divide the counter's modulus.
ConcurrentReadsWithoutWrap ==
    ConcurrentlyHeld =>
        /\ HeldValuesConsecutive
        /\ Cardinality({got[c] : c \in Holding}) = Cardinality(Holding)
        /\ (Cardinality(Holding) <= Len(readOnlyDBs)
              /\ NoWrapWithin(Cardinality(Holding), Len(readOnlyDBs)))
               => HeldReplicasDistinct

\* C4: ReadWrite() returns the first connection the set was built from, on
\* every call, whatever was called on the set before.
C4_ReadWriteIsPrimary ==
    /\ readWriteDB = dbs[1]
    /\ \A c \in Callers :
         (pc[c] = "selected" /\ op[c] = "ReadWrite") => sel[c] = dbs[1]

\* ReadWrite() answers after reads have advanced the counter, the pool has
\* been configured and a statement has been prepared.
C4_Witness ==
    /\ pc[1] = "selected"
    /\ op[1] = "ReadWrite"
    /\ sel[1] = dbs[1]
    /\ Len(readOnlyDBs) >= 1
    /\ readOnlyCount > 0
    /\ poolConfigured # {}
    /\ stmtHeld

\* C5: on a set without read-only connections, ReadOnly() and every read or
\* write of the set resolve to the read-write connection, and every read or
\* write of a statement resolves to the handle prepared on the read-write
\* connection.
C5_NoReplicasMeansPrimary ==
    Len(dbs) = 1 =>
        \A c \in Callers :
            pc[c] = "selected" =>
                sel[c] = IF op[c] \in StmtOps THEN PreparedOn(dbs[1]) ELSE dbs[1]

\* ReadOnly() has answered on a set of one connection.
C5_Witness ==
    /\ Len(dbs) = 1
    /\ pc[1] = "selected"
    /\ op[1] = "ReadOnly"
    /\ sel[1] = dbs[1]


\* C6: when Close() returns on a set of N connections, close has been invoked
\* on the read-write connection and on every read-only connection exactly
\* once per Close() call, whichever closes failed and however the goroutines
\* interleaved; at no moment has a connection been closed more often than
\* Close() was called.
C6_CloseClosesEachOnce ==
    /\ \A h \in Handles : closeCalls[h] <= closes
    /\ (fanKind = "Close" /\ fanPhase = "returned") =>
           /\ fanN = Len(dbs)
           /\ \A k \in 1 .. Len(dbs) : closeCalls[dbs[k]] = closes
           /\ \A h \in Handles : (\A k \in 1 .. Len(dbs) : dbs[k] # h) => closeCalls[h] = 0

\* Close() has returned an error on the largest set, where some closes failed
\* and some did not.
C6_Witness ==
    /\ fanKind = "Close"
    /\ fanPhase = "returned"
    /\ Len(dbs) = MaxFanReplicas + 1
    /\ fanFails # {}
    /\ \E i \in 0 .. (fanN - 1) : i \notin fanFails
    /\ fanRet # Nil
    /\ \A k \in 1 .. Len(dbs) : closeCalls[dbs[k]] = 1

\* The prepared handles of the statement, the read-write one included.
StmtPrepared == {rwstmt} \cup {rostmts[k] : k \in 1 .. Len(rostmts)}

\* C7: when a statement's Close() returns, close has been invoked on its
\* read-write prepared handle and on every read-only prepared handle, once
\* per Close() call, also when some of those closes returned an error.
C7_StmtCloseClosesAll ==
    (fanKind = "StmtClose" /\ fanPhase = "returned") =>
        /\ Cardinality(StmtPrepared) = totalConnections
        /\ \A h \in StmtPrepared : stmtCloseCalls[h] = stmtCloses
        /\ \A h \in StmtHandles \ StmtPrepared : stmtCloseCalls[h] = 0

\* A statement's Close() has returned an error on the largest set, every
\* handle closed.
C7_Witness ==
    /\ fanKind = "StmtClose"
    /\ fanPhase = "returned"
    /\ Len(rostmts) = MaxFanReplicas
    /\ fanFails # {}
    /\ fanRet # Nil
    /\ \A h \in StmtPrepared : stmtCloseCalls[h] = 1

\* C8: doConcurrent(n, fn) invokes fn once for each index 0..n-1 and for no
\* other, failures cancelling nothing, and when it has returned every
\* invocation has finished and delivered its result.
C8_FanOutBarrier ==
    /\ \A i \in Workers : invoked[i] <= 1
    /\ \A i \in Workers : i >= fanN => invoked[i] = 0
    /\ fanPhase = "returned" =>
           \A i \in 0 .. (fanN - 1) : invoked[i] = 1 /\ wst[i] = "sent"

\* doConcurrent has returned from the largest fan-out, with a failure among
\* the invocations.
C8_Witness ==
    /\ fanKind = "fn"
    /\ fanPhase = "returned"
    /\ fanN = MaxN
    /\ 0 \in fanFails
    /\ \A i \in 0 .. (fanN - 1) : invoked[i] = 1

\* The indices whose invocation returned an error.
Failed == {i \in 0 .. (fanN - 1) : wres[i] # Nil}

\* C9: for every n >= 0 and every choice of the invocations that fail,
\* doConcurrent returns nil exactly when every invocation returned nil (so for
\* n = 0), and otherwise returns the error of one of the failing invocations.
C9_NilIffAllSucceeded ==
    fanPhase = "returned" =>
        /\ fanRet = Nil <=> Failed = {}
        /\ Failed # {} => fanRet \in {wres[i] : i \in Failed}
        /\ Failed = fanFails \cap (0 .. (fanN - 1))

\* doConcurrent has returned an error although a nil result was received
\* after the failing one.
C9_Witness ==
    /\ fanKind = "fn"
    /\ fanPhase = "returned"
    /\ fanN >= 2
    /\ Failed # {}
    /\ fanRet # Nil
    /\ recvLog[Len(recvLog)] = Nil

\* The positions of the errors in the order the collecting loop received them.
ErrorsReceived == {k \in 1 .. Len(recvLog) : recvLog[k] # Nil}

\* C10: when invocations fail, doConcurrent returns the error the collecting
\* loop received last.
C10_LastReceivedErrorWins ==
    (fanPhase = "returned" /\ ErrorsReceived # {}) =>
        \E k \in ErrorsReceived :
            /\ \A j \in ErrorsReceived : j <= k
            /\ fanRet = recvLog[k]

\* The same input, two invocations failing with distinct errors, has returned
\* each of the two errors, in a run where the other one was received first.
C10_Witness ==
    /\ fanKind = "fn"
    /\ fanPhase = "returned"
    /\ fanN = 2
    /\ fanFails = {0, 1}
    /\ seenRet = {ErrOf(0), ErrOf(1)}
    /\ ErrOf(0) # ErrOf(1)
    /\ recvLog = <<ErrOf(0), ErrOf(1)>>
    /\ fanRet = ErrOf(1)


\* C11: WrapDBs panics exactly when its handle list is empty; from a list of
\* n >= 1 handles it builds the set whose read-write connection is the first
\* handle and whose read-only connections are the other n-1, in the list's
\* order (none for a list of one).
C11_WrapDBsPanicsIffEmpty ==
    /\ built = "panicked" => Len(dbs) = 0
    /\ built = "wrapped" =>
           /\ Len(dbs) >= 1
           /\ readWriteDB = dbs[1]
           /\ totalConnections = Len(dbs)
           /\ Len(readOnlyDBs) = Len(dbs) - 1
           /\ \A i \in 1 .. Len(readOnlyDBs) : readOnlyDBs[i] = dbs[i + 1]

\* WrapDBs has built a set from the longest list, one that does not begin
\* with the lowest handle.
C11_Witness ==
    /\ built = "wrapped"
    /\ Len(dbs) = MaxFanReplicas + 1
    /\ dbs[1] # 1
    /\ readWriteDB = dbs[1]
    /\ readOnlyDBs = Tail(dbs)

\* The write methods of the set.
SetWriteMethods == {"Exec", "ExecContext", "Begin", "BeginTx"}

\* C12: Exec, ExecContext, Begin and BeginTx of the set run on the read-write
\* connection, and Exec and ExecContext of a statement on the handle prepared
\* on the read-write connection, whatever the number of read-only connections
\* and the value of the counter: no read-only connection receives a write.
C12_WritesGoToPrimary ==
    \A c \in Callers :
        pc[c] = "selected" =>
            /\ op[c] \in SetWriteMethods =>
                   sel[c] = readWriteDB /\ sel[c] \notin Replicas
            /\ op[c] \in StmtWriteOps =>
                   sel[c] = PreparedOn(readWriteDB) /\ ConnOf(sel[c]) \notin Replicas

\* A statement's Exec has resolved on the largest set after the counter has
\* advanced.
C12_Witness ==
    /\ pc[1] = "selected"
    /\ op[1] = "Stmt.Exec"
    /\ Len(readOnlyDBs) = MaxReplicas
    /\ readOnlyCount > 0
    /\ sel[1] = PreparedOn(readWriteDB)

\* The read methods of the set.
SetReadMethods == {"Query", "QueryContext", "QueryRow", "QueryRowContext"}

\* C13: Query, QueryContext, QueryRow and QueryRowContext of the set run on
\* the connection ReadOnly() selects for the call: with R >= 1 read-only
\* connections, the one the counter's new value indexes, never the read-write
\* connection.
C13_QueriesGoWhereReadOnlySelects ==
    \A c \in Callers :
        (pc[c] = "selected" /\ op[c] \in SetReadMethods) =>
            IF Len(readOnlyDBs) = 0
            THEN sel[c] = readWriteDB
            ELSE /\ got[c] = readOnlyCount
                 /\ sel[c] = readOnlyDBs[(readOnlyCount % Len(readOnlyDBs)) + 1]
                 /\ sel[c] # readWriteDB

\* QueryRow has resolved to a read-only connection of a set with several.
C13_Witness ==
    /\ pc[1] = "selected"
    /\ op[1] = "QueryRow"
    /\ Len(readOnlyDBs) >= 2
    /\ sel[1] \in Replicas

\* C14: Open on a data source name of n segments returns an error and no set
\* when the open of at least one segment fails; otherwise it returns the set
\* whose read-write connection was opened from segment 0 and whose read-only
\* connections were opened from segments 1..n-1, in that order.
C14_OpenAllOrNothing ==
    /\ (fanKind = "Open" /\ fanPhase = "returned") =>
           /\ built \in {"failed", "opened"}
           /\ built = "failed" <=> fanFails # {}
           /\ built = "failed" <=> fanRet # Nil
    /\ built = "opened" =>
           /\ readWriteDB = OpenedFrom(0)
           /\ Len(readOnlyDBs) = totalConnections - 1
           /\ \A i \in 1 .. Len(readOnlyDBs) : readOnlyDBs[i] = OpenedFrom(i)

\* Open has returned a set from the longest data source name.
C14_Witness ==
    /\ fanKind = "Open"
    /\ fanPhase = "returned"
    /\ built = "opened"
    /\ totalConnections = MaxFanReplicas + 1
    /\ fanRet = Nil

\* C15: Prepare and PrepareContext return an error and no statement when the
\* prepare fails on at least one connection, and return a statement only when
\* it succeeded on the read-write connection and on every read-only one.
C15_PrepareAllOrNothing ==
    (fanKind = "Prepare" /\ fanPhase = "returned") =>
        /\ fanFails # {} => (fanRet # Nil /\ ~stmtHeld /\ rwstmt = Nil /\ rostmts = <<>>)
        /\ stmtHeld =>
               /\ fanFails = {}
               /\ fanRet = Nil
               /\ rwstmt \in StmtHandles
               /\ \A i \in 1 .. Len(rostmts) : rostmts[i] \in StmtHandles
        /\ stmtHeld \/ fanRet # Nil

\* Prepare has returned an error although the prepare succeeded on some of
\* the connections.
C15_Witness ==
    /\ fanKind = "Prepare"
    /\ fanPhase = "returned"
    /\ fanN = MaxFanReplicas + 1
    /\ fanFails # {}
    /\ \E i \in 0 .. (fanN - 1) : i \notin fanFails
    /\ fanRet # Nil
    /\ ~stmtHeld

\* The prepared handle Prepare's fn stored for index i.
PreparedAt(i) == IF i = 0 THEN newRw ELSE newRo[i]

\* The indices of the present fan-out whose fn succeeded.
Succeeded == (0 .. (fanN - 1)) \ fanFails

\* C16: when Open or Prepare returns an error, the connections opened, or the
\* handles prepared, on the targets that succeeded are still there and close
\* has been invoked on none of them.
C16_NoRollback ==
    /\ (fanKind = "Open" /\ fanPhase = "returned" /\ fanRet # Nil) =>
           \A i \in Succeeded :
               ConnAt(i) = OpenedFrom(i) /\ closeCalls[OpenedFrom(i)] = 0
    /\ (fanKind = "Prepare" /\ fanPhase = "returned" /\ fanRet # Nil) =>
           \A i \in Succeeded :
               /\ PreparedAt(i) = PreparedOn(ConnAt(i))
               /\ stmtCloseCalls[PreparedAt(i)] = 0

\* Open has failed on its last segment only: the connections of the others
\* are open.
C16_Witness ==
    /\ fanKind = "Open"
    /\ fanPhase = "returned"
    /\ built = "failed"
    /\ fanN >= 2
    /\ fanFails = {fanN - 1}
    /\ readWriteDB = OpenedFrom(0)
    /\ closeCalls[readWriteDB] = 0

\* C17: once Close() has been called on a statement, a later call of one of
\* its methods, Close itself among them, fails with an error instead of
\* executing: a second Close() invokes close on no prepared handle again and
\* returns an error.
C17_ClosedStatementRefuses ==
    /\ \A h \in StmtHandles : stmtCloseCalls[h] <= 1
    /\ (fanKind = "StmtClose" /\ fanPhase = "returned" /\ stmtCloses >= 2) => fanRet # Nil

\* C18: the counter only ever increases: no step makes it smaller, also not
\* the step taken at the largest value of its width.
C18_CounterNeverDecreases == [][readOnlyCount' >= readOnlyCount]_vars

\* C19 as the specification words it: the index of a read is the counter's
\* value before the increment, modulo R, so that on a fresh set the k-th read
\* (k = 0, 1, ...) selects replicas[k mod R] and the first replicas[0].
C19_IndexIsValueBeforeAdd ==
    \A c \in Callers :
        (pc[c] = "selected" /\ got[c] # NoCount /\ readsDone <= Modulus) =>
            ConnOf(sel[c]) = readOnlyDBs[((readsDone - 1) % Len(readOnlyDBs)) + 1]

\* C19: the index of a read is the value the atomic add of 1 returns, the
\* counter's value after the increment, modulo R; on a fresh set the k-th
\* read (k = 0, 1, ..., k+1 below the counter's modulus) draws k+1 and selects
\* replicas[(k+1) mod R], the first read replicas[1 mod R].
C19_IndexIsValueAfterAdd ==
    \A c \in Callers :
        (pc[c] = "selected" /\ got[c] # NoCount) =>
            /\ got[c] = readOnlyCount
            /\ ConnOf(sel[c]) = readOnlyDBs[(got[c] % Len(readOnlyDBs)) + 1]
            /\ readsDone < Modulus =>
                   /\ got[c] = readsDone
                   /\ ConnOf(sel[c]) = readOnlyDBs[(readsDone % Len(readOnlyDBs)) + 1]

\* The first read of a fresh set with several read-only connections has
\* selected the second of them.
C19_Witness ==
    /\ readsDone = 1
    /\ pc[1] = "selected"
    /\ got[1] = 1
    /\ Len(readOnlyDBs) >= 2
    /\ ConnOf(sel[1]) = readOnlyDBs[2]

\* C20: a statement returned by Prepare holds one prepared handle per
\* connection, in the connections' order: rwstmt prepared on the read-write
\* connection, and R read-only handles, the i-th prepared on the i-th
\* read-only connection.
C20_StatementHandlesFollowConnections ==
    stmtHeld =>
        /\ rwstmt = PreparedOn(readWriteDB)
        /\ Len(rostmts) = Len(readOnlyDBs)
        /\ \A i \in 1 .. Len(rostmts) :
               rostmts[i] = PreparedOn(readOnlyDBs[i]) /\ ConnOf(rostmts[i]) = readOnlyDBs[i]

\* Prepare has returned a statement on the largest set.
C20_Witness ==
    /\ fanKind = "Prepare"
    /\ fanPhase = "returned"
    /\ stmtHeld
    /\ Len(readOnlyDBs) = MaxFanReplicas
    /\ Len(rostmts) = MaxFanReplicas

\* C21: a constructed connection set has a non-nil primary and
\* totalConnections = 1 + the number of its replicas, and no operation on the
\* set changes the primary, the replica list or totalConnections.  Hence
\* every index 0 .. totalConnections-1 that the fan-outs of Close, Ping,
\* Prepare and stmt.Close hand to their fn addresses the primary or an
\* existing replica slot (and an existing slot of the statement's handle
\* lists), and totalConnections = 1 exactly when there is no replica.
SetFanOuts == {"Close", "Ping", "Prepare", "StmtClose"}

SetShape ==
    /\ readWriteDB \in Handles
    /\ \A i \in 1 .. Len(readOnlyDBs) : readOnlyDBs[i] \in Handles
    /\ totalConnections = 1 + Len(readOnlyDBs)
    /\ (totalConnections = 1) <=> (readOnlyDBs = <<>>)

FanOutInRange ==
    (fanKind \in SetFanOuts /\ fanPhase # "idle") =>
        /\ fanN = totalConnections
        /\ \A i \in 1 .. (fanN - 1) :
               /\ i \in DOMAIN readOnlyDBs
               /\ fanKind = "Prepare" /\ fanPhase # "returned" => i \in DOMAIN newRo
               /\ fanKind = "StmtClose" => i \in DOMAIN rostmts

SetFieldsKept == UNCHANGED <<readWriteDB, readOnlyDBs, totalConnections>>

C21_SetShapeIsFixed ==
    /\ [](SetBuilt => SetShape /\ FanOutInRange)
    /\ [][SetBuilt => SetFieldsKept]_vars

\* A statement's Close has fanned out over a set with a replica, after reads
\* advanced the counter, the pool was configured and the set itself was
\* closed; the set still has its shape.
C21_Witness ==
    /\ fanKind = "StmtClose"
    /\ fanPhase = "returned"
    /\ closes > 0
    /\ readOnlyCount > 0
    /\ poolConfigured # {}
    /\ fanN = 1 + MaxApiReplicas
    /\ SetShape

\* C22: only read selections change the counter.  The step in which a read
\* method of the set (ReadOnly, Query*, QueryRow*) or of a statement selects
\* its handle adds exactly 1 to the counter (uint64 addition) when the set
\* has a replica and leaves it unchanged when it has none; every other step
\* (ReadWrite, Exec*, Begin*, Driver, the pool setters, the steps of
\* Prepare*, Ping*, Close and stmt.Close) leaves it unchanged.
ReadSelection ==
    \E c \in Callers :
        /\ pc[c] = "called"
        /\ pc'[c] = "selected"
        /\ op[c] \in SetReadOps \cup StmtReadOps

C22_OnlyReadsAdvanceCounter ==
    [][IF ReadSelection /\ Len(readOnlyDBs) >= 1
       THEN readOnlyCount' = AddUint64(readOnlyCount, 1) /\ readOnlyCount' # readOnlyCount
       ELSE readOnlyCount' = readOnlyCount]_vars

\* A write is selecting the read-write connection of a set with a replica
\* whose counter reads have advanced, after the set was pinged or closed, a
\* statement prepared and the pool configured.
C22_Witness ==
    /\ pc[1] = "selected"
    /\ op[1] \in SetWriteOps \cup StmtWriteOps
    /\ sel[1] \in {readWriteDB, rwstmt}
    /\ readOnlyCount = 1
    /\ Len(readOnlyDBs) >= 1
    /\ stmtHeld
    /\ closes > 0
    /\ poolConfigured # {}

\* C23: in doConcurrent a goroutine that has its result can always deliver
\* it (the channel has capacity n and receives n sends), so a started
\* doConcurrent whose fn calls terminate eventually returns under fair
\* scheduling; when it returns, the channel is empty and every goroutine it
\* started has delivered.
NoSendBlocks == \A i \in Workers : wst[i] = "finished" => ENABLED WorkerSend(i)

QuietAtReturn ==
    fanPhase = "returned" =>
        /\ errors = <<>>
        /\ \A i \in Workers : wst[i] \in {"none", "sent"}
        /\ \A i \in 0 .. (fanN - 1) : wst[i] = "sent"

C23_FanOutTerminates ==
    /\ [](NoSendBlocks /\ QuietAtReturn)
    /\ (fanPhase \in {"spawn", "collect"}) ~> (fanPhase = "returned")

\* doConcurrent has returned from the largest fan-out, all of whose results
\* were delivered and received.
C23_Witness ==
    /\ fanKind = "fn"
    /\ fanPhase = "returned"
    /\ fanN = MaxN
    /\ Len(recvLog) = MaxN
    /\ errors = <<>>
    /\ \A i \in 0 .. (MaxN - 1) : wst[i] = "sent"

\* C24: while Open and Prepare fan out, goroutine i writes only its own
\* location (the primary field for i = 0, slot i-1 of the replica list
\* otherwise), once, so no two goroutines write the same location; nothing
\* else writes the locations meanwhile, and the caller reads and publishes the
\* assembled set or statement only after it has received all n results.
Ran(i) == wst[i] = "spawned" /\ wst'[i] = "finished"

\* The step changes, of a primary field and its replica list, at most the
\* location that index i addresses.
OnlyOwnLocation(i, rw, rwNext, ro, roNext) ==
    /\ rwNext # rw => i = 0
    /\ DOMAIN roNext = DOMAIN ro
    /\ \A j \in DOMAIN ro : roNext[j] # ro[j] => j = i

Assembling == fanKind \in {"Open", "Prepare"} /\ fanPhase \in {"spawn", "collect"}

Published == (stmtHeld' # stmtHeld) \/ (built = "opening" /\ built' # "opening")

AllReceived ==
    /\ fanPhase = "collect"
    /\ loopI = fanN
    /\ \A i \in 0 .. (fanN - 1) : wst[i] = "sent"

C24_WorkersWriteOwnSlot ==
    [][/\ \A i \in Workers :
              Ran(i) =>
                  /\ invoked'[i] = 1
                  /\ fanKind = "Open" =>
                         OnlyOwnLocation(i, readWriteDB, readWriteDB', readOnlyDBs, readOnlyDBs')
                  /\ fanKind = "Prepare" =>
                         OnlyOwnLocation(i, newRw, newRw', newRo, newRo')
       /\ (Assembling /\ ~(\E i \in Workers : Ran(i))) =>
              UNCHANGED <<readWriteDB, readOnlyDBs, newRw, newRo>>
       /\ Published => AllReceived]_vars

\* Open's goroutines 1 and 2 have written their replica slots while
\* goroutine 0 has not yet written the primary.
C24_Witness ==
    /\ fanKind = "Open"
    /\ fanPhase \in {"spawn", "collect"}
    /\ fanN >= 3
    /\ wst[0] = "spawned"
    /\ wst[1] \in {"finished", "sent"}
    /\ wst[2] \in {"finished", "sent"}
    /\ readWriteDB = Nil
    /\ readOnlyDBs[1] = OpenedFrom(1)
    /\ readOnlyDBs[2] = OpenedFrom(2)

====
